---- MODULE Spec2Model ----
(***************************************************************************)
(* A model of the cifras_api server (Express handlers that search the      *)
(* Cifra Club site and turn one of its pages into a chord sheet, an artist *)
(* listing or "not found").                                                *)
(*                                                                         *)
(* Strings are modelled as sequences of tokens (Text): concatenation is    *)
(* \o, the empty string is << >>.  A text a pattern is searched in is cut  *)
(* so that every occurrence of the pattern is a token of its own (the name *)
(* "cifraclub.com.br" in a url, "/letra/", "/simplificada.html"); the text *)
(* of a search anchor, where the pattern is matched in any case, is        *)
(* written character by character.  A fetched document is modelled by what *)
(* cheerio.load() gives the handlers: the <pre> elements with their child  *)
(* nodes, the matches of the fixed selectors, the __NEXT_DATA__ script and *)
(* the iframes.                                                            *)
(***************************************************************************)
EXTENDS Integers, Sequences, FiniteSets, TLC

\* ------------------------------------------------------------------------
\* Bounds of the model
\* ------------------------------------------------------------------------
MaxBlockLen == 2
MaxSongs == 1

\* ------------------------------------------------------------------------
\* JavaScript values that may be undefined, null, a string, or an array or
\* object
\* ------------------------------------------------------------------------
\* (a string is a Text: a sequence of tokens)
Undefined == [t |-> "undefined", s |-> << >>]
Null == [t |-> "null", s |-> << >>]
Str(s) == [t |-> "str", s |-> s]

\* A query parameter given twice (?url=a&url=b) or with a key (?url[a]=b)
\* reaches the handler as an array or an object: a value that is truthy and
\* has no string method.
NotAString == [t |-> "object", s |-> << >>]

\* JavaScript truthiness of such a value: a non-empty string, an array and
\* an object are truthy.
Truthy(v) == v.t = "object" \/ (v.t = "str" /\ v.s # << >>)

\* a || b
OrElse(a, b) == IF Truthy(a) THEN a ELSE b

\* ------------------------------------------------------------------------
\* DOM nodes below a <pre> element
\* ------------------------------------------------------------------------
TextNode(txt) == [tag |-> "#text", data |-> txt, kids |-> << >>]
Elem(tag, kids) == [tag |-> tag, data |-> << >>, kids |-> kids]

RECURSIVE NodeText(_)
RECURSIVE KidsText(_)
\* cheerio's .text() of one node: the data of its text descendants, in
\* document order.
NodeText(n) == IF n.tag = "#text" THEN n.data ELSE KidsText(n.kids)

\* cheerio's .text() of a list of nodes.
KidsText(kids) ==
  IF kids = << >> THEN << >>
  ELSE NodeText(Head(kids)) \o KidsText(Tail(kids))

\* The start and end tags of an element, as serialized.
OpenTag(tag) == IF tag = "b" THEN "<b>" ELSE "<span>"
CloseTag(tag) == IF tag = "b" THEN "</b>" ELSE "</span>"

RECURSIVE InnerHtml(_)
\* cheerio's .html() of an element with these children: the serialization
\* of the children, tags included.
InnerHtml(kids) ==
  IF kids = << >> THEN << >>
  ELSE LET n == Head(kids) IN
       (IF n.tag = "#text" THEN n.data
        ELSE <<OpenTag(n.tag)>> \o InnerHtml(n.kids) \o <<CloseTag(n.tag)>>)
       \o InnerHtml(Tail(kids))

RECURSIVE FindFrom(_, _, _, _)
\* The paths (child indices from the <pre>) of the descendants with this
\* tag, in document order, starting at child i.
FindFrom(kids, tag, prefix, i) ==
  IF i > Len(kids) THEN << >>
  ELSE LET p == prefix \o <<i>> IN
       (IF kids[i].tag = tag THEN <<p>> ELSE << >>)
       \o FindFrom(kids[i].kids, tag, p, 1)
       \o FindFrom(kids, tag, prefix, i + 1)

\* A plausible slip: children('b') instead of find('b').
FindChildrenOnly(kids, tag) ==
  LET idx == {i \in 1..Len(kids) : kids[i].tag = tag}
      RECURSIVE Up(_)
      Up(i) == IF i > Len(kids) THEN << >>
               ELSE (IF i \in idx THEN << <<i>> >> ELSE << >>) \o Up(i + 1)
  IN Up(1)

\* pre.find('b'): every descendant <b>, in document order.
Find(kids, tag) == FindFrom(kids, tag, << >>, 1)

RECURSIVE Attached(_, _)
\* Whether the path still leads to a node of the tree.
Attached(kids, path) ==
  /\ path # << >>
  /\ Head(path) <= Len(kids)
  /\ \/ Len(path) = 1
     \/ Attached(kids[Head(path)].kids, Tail(path))

RECURSIVE NodeAt(_, _)
NodeAt(kids, path) ==
  IF Len(path) = 1 THEN kids[Head(path)]
  ELSE NodeAt(kids[Head(path)].kids, Tail(path))

RECURSIVE ReplaceAt(_, _, _)
\* The tree with the node at the path replaced by another node.
ReplaceAt(kids, path, node) ==
  IF Len(path) = 1 THEN [kids EXCEPT ![Head(path)] = node]
  ELSE [kids EXCEPT ![Head(path)] =
          [@ EXCEPT !.kids = ReplaceAt(@, Tail(path), node)]]

RECURSIVE ReplaceEach(_, _)
\* .each((_, el) => $(el).replaceWith(`[${$(el).text()}]`)) over the
\* elements found before the loop started.  An element whose ancestor was
\* already replaced is no longer in the tree: replacing it changes only the
\* detached subtree.
ReplaceEach(kids, paths) ==
  IF paths = << >> THEN kids
  ELSE LET p == Head(paths) IN
       ReplaceEach(
         IF Attached(kids, p)
           THEN ReplaceAt(kids, p,
                  TextNode(<<"[">> \o NodeText(NodeAt(kids, p)) \o <<"]">>))
           ELSE kids,
         Tail(paths))

\* One <pre> after the ChordPro conversion.
ConvertBlock(kids) == ReplaceEach(kids, Find(kids, "b"))

RECURSIVE ChordPro(_)
\* pre.text() after the conversion, over every <pre> of the page.
ChordPro(pres) ==
  IF pres = << >> THEN << >>
  ELSE KidsText(ConvertBlock(Head(pres))) \o ChordPro(Tail(pres))

\* ------------------------------------------------------------------------
\* The __NEXT_DATA__ data island and the video identifier
\* ------------------------------------------------------------------------
\* The value JSON.parse gives, described level by level along the two paths
\* the handler follows.  Each level is "undefined" (the property is
\* missing), "null" or "obj"; the identifiers are JavaScript values.
JsonValue(root, props, pageProps, video, videoId, songData, sdVideo, sdVideoId) ==
  [root |-> root, props |-> props, pageProps |-> pageProps,
   video |-> video, videoId |-> videoId,
   songData |-> songData, sdVideo |-> sdVideo, sdVideoId |-> sdVideoId]

\* a?.b : undefined unless a is an object.
Chain(parent, child) == IF parent = "obj" THEN child ELSE "undefined"

\* a?.youtube_id
ChainId(parent, id) == IF parent = "obj" THEN id ELSE Undefined

\* nextData?.props?.pageProps
PageProps(j) == Chain(Chain(j.root, j.props), j.pageProps)

\* pageProps?.video?.youtube_id
PrimaryId(j) == ChainId(Chain(PageProps(j), j.video), j.videoId)

\* pageProps?.songData?.video?.youtube_id
AlternateId(j) ==
  ChainId(Chain(Chain(PageProps(j), j.songData), j.sdVideo), j.sdVideoId)

\* A plausible slip: the alternate path tried first.
VideoIdAlternateFirst(j) == OrElse(AlternateId(j), OrElse(PrimaryId(j), Null))

\* pageProps?.video?.youtube_id || pageProps?.songData?.video?.youtube_id || null
VideoIdOf(j) == OrElse(PrimaryId(j), OrElse(AlternateId(j), Null))

\* The script element: absent, empty, text JSON.parse rejects, or text it
\* parses to a value.
Island(script, json) == [script |-> script, json |-> json]

\* JSON "null", also the placeholder where the script is not JSON.
JsonNull == JsonValue("null", "undefined", "undefined", "undefined", Undefined,
                      "undefined", "undefined", Undefined)

\* A plausible slip: JSON.parse outside any try block, so that its
\* exception leaves the extraction.
NextDataVideoIdUncaught(island) ==
  IF island.script = "json"
    THEN [threw |-> FALSE, videoId |-> VideoIdOf(island.json)]
    ELSE [threw |-> island.script = "malformed", videoId |-> Null]

\* let videoId = null; if (nextDataScript) { try { JSON.parse ... } catch
\* (e) { log } }: the videoId, and whether an exception left the block.  An
\* absent or empty script is falsy and skips the block; a parse error is
\* caught and leaves videoId null.
NextDataVideoId(island) ==
  IF island.script = "json"
    THEN [threw |-> FALSE, videoId |-> VideoIdOf(island.json)]
    ELSE [threw |-> FALSE, videoId |-> Null]

\* ------------------------------------------------------------------------
\* The iframe of the video player (part_001)
\* ------------------------------------------------------------------------
\* src contains "youtube.com/embed/"
IsEmbedSrc(src) ==
  \E i \in 1..Len(src) :
    /\ i + 3 <= Len(src)
    /\ src[i] \in {"www.youtube.com", "youtube.com"}
    /\ src[i + 1] = "/"
    /\ src[i + 2] = "embed"
    /\ src[i + 3] = "/"

RECURSIVE FirstEmbed(_)
\* $('iframe[src*="youtube.com/embed/"]').attr('src'): the src of the first
\* matching iframe, or undefined.
FirstEmbed(iframes) ==
  IF iframes = << >> THEN [found |-> FALSE, src |-> << >>]
  ELSE IF IsEmbedSrc(Head(iframes)) THEN [found |-> TRUE, src |-> Head(iframes)]
  ELSE FirstEmbed(Tail(iframes))

\* The tokens after the last occurrence of sep (all of them without one).
AfterLast(txt, sep) ==
  LET at == {i \in 1..Len(txt) : txt[i] = sep}
      last == IF at = {} THEN 0 ELSE CHOOSE i \in at : \A k \in at : k <= i
  IN SubSeq(txt, last + 1, Len(txt))

\* The tokens before the first occurrence of sep (all of them without one).
BeforeFirst(txt, sep) ==
  LET at == {i \in 1..Len(txt) : txt[i] = sep}
      first == IF at = {} THEN Len(txt) + 1
               ELSE CHOOSE i \in at : \A k \in at : i <= k
  IN SubSeq(txt, 1, first - 1)

\* urlParts[urlParts.length - 1].split('?')[0], or null without an iframe.
IframeVideoId(iframes) ==
  LET e == FirstEmbed(iframes) IN
  IF e.found /\ e.src # << >>
    THEN Str(BeforeFirst(AfterLast(e.src, "/"), "?"))
    ELSE Null

\* ------------------------------------------------------------------------
\* Responses
\* ------------------------------------------------------------------------
NoResponse ==
  [status |-> 0, type |-> "none", artist |-> << >>, song |-> << >>,
   content |-> << >>, hasVideoId |-> FALSE, videoId |-> Null,
   songs |-> << >>, error |-> "", details |-> ""]

\* res.json({type: 'cifra', ...}) with a videoId field
CifraResponse(artist, song, content, videoId) ==
  [NoResponse EXCEPT !.status = 200, !.type = "cifra", !.artist = artist,
                     !.song = song, !.content = content,
                     !.hasVideoId = TRUE, !.videoId = videoId]

\* res.json({type: 'cifra', ...}) of the revisions without a videoId field
CifraResponseNoVideo(artist, song, content) ==
  [NoResponse EXCEPT !.status = 200, !.type = "cifra", !.artist = artist,
                     !.song = song, !.content = content]

\* res.json({type: 'artist', artist, songs})
ArtistResponse(artist, songs) ==
  [NoResponse EXCEPT !.status = 200, !.type = "artist", !.artist = artist,
                     !.songs = songs]

\* res.status(code).json({error, details})
ErrorResponse(code, error, details) ==
  [NoResponse EXCEPT !.status = code, !.type = "error", !.error = error,
                     !.details = details]

\* res.status(404).json({error})
NotFoundResponse == ErrorResponse(404, "NotFound", "")

\* ------------------------------------------------------------------------
\* Content extraction
\* ------------------------------------------------------------------------
\* The name of the site, as the handlers look for it in a url.
SiteName == "cifraclub.com.br"

\* 'https://www.cifraclub.com.br'
SiteOrigin == <<"https://www.", SiteName>>

\* `https://www.cifraclub.com.br${$(element).attr('href')}`: a missing href
\* is interpolated as the text "undefined".
SongUrl(href) ==
  SiteOrigin \o (IF href.t = "str" THEN href.s ELSE <<"undefined">>)

RECURSIVE SongsList(_)
\* The {title, url} entries pushed for the matches of
\* 'ol.list-links.art_musics.top-songs a.al-link'.
SongsList(links) ==
  IF links = << >> THEN << >>
  ELSE <<[title |-> Head(links).text, url |-> SongUrl(Head(links).href)]>>
       \o SongsList(Tail(links))

\* Steps 2 and 3, common to every revision: the artist listing, or 404.
ListingOrNotFound(page) ==
  LET songsList == SongsList(page.songs) IN
  IF Len(songsList) > 0 THEN ArtistResponse(page.h1, songsList)
  ELSE NotFoundResponse

\* const cifraContent = pre.length ? pre.text() : null  (after the
\* conversion); null and "" are both falsy.
CifraContent(page) ==
  IF Len(page.pres) > 0 THEN [isNull |-> FALSE, text |-> ChordPro(page.pres)]
  ELSE [isNull |-> TRUE, text |-> << >>]

\* A plausible slip: the guard tests pre.length instead of the content.
ContentFoundIfPre(c) == ~c.isNull

\* if (cifraContent)
ContentFound(c) == ~c.isNull /\ c.text # << >>

\* A plausible slip: the song list is looked for before the chord block.
ClassifyListingFirst(page, videoId) ==
  IF Len(page.songs) > 0 THEN ListingOrNotFound(page)
  ELSE LET c == CifraContent(page) IN
       IF ContentFound(c) THEN CifraResponse(page.h2a, page.h1, c.text, videoId)
       ELSE NotFoundResponse

\* server.js, the classification of /api/cifra: responseData, or the 404.
Classify(page, videoId) ==
  LET c == CifraContent(page) IN
  IF ContentFound(c) THEN CifraResponse(page.h2a, page.h1, c.text, videoId)
  ELSE ListingOrNotFound(page)

\* server.js, /api/cifra from cheerio.load(html) to the response, the cache
\* aside.  An exception in it is answered by the handler's catch with 500.
ExtractContent(page) ==
  LET v == NextDataVideoId(page.nextData) IN
  IF v.threw
    THEN ErrorResponse(500, "Ocorreu um erro ao obter o conteudo da cifra.",
                       "SyntaxError")
    ELSE Classify(page, v.videoId)

\* $('pre').html(): the inner HTML of the first <pre>, or null.
PreHtml(page) ==
  IF Len(page.pres) > 0 THEN [isNull |-> FALSE, text |-> InnerHtml(page.pres[1])]
  ELSE [isNull |-> TRUE, text |-> << >>]

\* part_000 and part_002, /api/scrape from cheerio.load(html) to the
\* response (the browser-automation revisions).
ScrapeBrowserExtract(page) ==
  LET c == PreHtml(page) IN
  IF ContentFound(c) THEN CifraResponseNoVideo(page.h2a, page.h1, c.text)
  ELSE ListingOrNotFound(page)

\* part_001, /api/scrape from cheerio.load(html) to the response: the
\* videoId comes from the iframe alone.
ScrapeFetchExtract(page) ==
  LET c == PreHtml(page)
      videoId == IframeVideoId(page.iframes) IN
  IF ContentFound(c) THEN CifraResponse(page.h2a, page.h1, c.text, videoId)
  ELSE ListingOrNotFound(page)

\* ------------------------------------------------------------------------
\* The documents the extraction is checked on
\* ------------------------------------------------------------------------
ChordTokens == {"G", "D"}

Tags == {"b", "span"}

Leaves == {TextNode(<<t>>) : t \in ChordTokens}

\* No child or one child.
KidLists(S) == {<< >>} \cup {<<n>> : n \in S}

InnerNodes == Leaves \cup {Elem(tag, k) : tag \in Tags, k \in KidLists(Leaves)}

\* Text, and elements nested two deep: <b> in <span>, <span> in <b>, <b> in
\* <b>.
Nodes == Leaves \cup {Elem(tag, k) : tag \in Tags, k \in KidLists(InnerNodes)}

SeqsUpTo(S, n) == UNION {[1..k -> S] : k \in 0..n}

\* The children of one <pre>.
Blocks == SeqsUpTo(Nodes, MaxBlockLen)

SmallBlocks == {<< >>, <<TextNode(<<"G">>)>>, <<Elem("b", <<TextNode(<<"D">>)>>)>>}

\* No <pre>, one <pre>, and some pages with two.
PreLists ==
  {<< >>} \cup {<<b>> : b \in Blocks}
  \cup {<<b1, b2>> : b1 \in SmallBlocks, b2 \in SmallBlocks}

SongLinks ==
  {[text |-> <<"Hit">>, href |-> Str(<<"/artist/hit/">>)],
   [text |-> <<"Tune">>, href |-> Undefined]}

SongLists == SeqsUpTo(SongLinks, MaxSongs)

PrimaryIds == {Undefined, Null, Str(<< >>), Str(<<"idA">>)}
AlternateIds == {Undefined, Str(<< >>), Str(<<"idB">>)}

VideoShapes ==
  {[kind |-> "undefined", id |-> Undefined], [kind |-> "null", id |-> Undefined]}
  \cup {[kind |-> "obj", id |-> i] : i \in PrimaryIds}

SongDataShapes ==
  {[songData |-> "undefined", sdVideo |-> "undefined", id |-> Undefined],
   [songData |-> "obj", sdVideo |-> "undefined", id |-> Undefined]}
  \cup {[songData |-> "obj", sdVideo |-> "obj", id |-> i] : i \in AlternateIds}

JsonValues ==
  {JsonNull,
   JsonValue("obj", "undefined", "undefined", "undefined", Undefined,
             "undefined", "undefined", Undefined),
   JsonValue("obj", "obj", "null", "undefined", Undefined,
             "undefined", "undefined", Undefined)}
  \cup {JsonValue("obj", "obj", "obj", v.kind, v.id, a.songData, a.sdVideo, a.id) :
          v \in VideoShapes, a \in SongDataShapes}

Islands ==
  {Island("absent", JsonNull), Island("empty", JsonNull),
   Island("malformed", JsonNull)}
  \cup {Island("json", j) : j \in JsonValues}

EmbedSrc == <<"https:", "/", "/", "www.youtube.com", "/", "embed", "/", "vidX">>
EmbedSrcQuery == EmbedSrc \o <<"?", "rel=0">>
OtherSrc == <<"https:", "/", "/", "player.vimeo.com", "/", "video", "/", "9">>

IframeLists ==
  {<< >>, <<EmbedSrc>>, <<EmbedSrcQuery>>, <<OtherSrc>>, <<OtherSrc, EmbedSrcQuery>>}

Page(pres, songs, h1, h2a, nextData, iframes) ==
  [pres |-> pres, songs |-> songs, h1 |-> h1, h2a |-> h2a,
   nextData |-> nextData, iframes |-> iframes]

\* Every shape of chord block and song list, without video sources.
ClassPages ==
  {Page(pres, songs, <<"Song">>, <<"Artist">>, Island("absent", JsonNull), << >>) :
     pres \in PreLists, songs \in SongLists}

\* Every shape of data island and iframe, on a chord sheet, an artist page,
\* a page with both and a page with neither.
VideoPages ==
  {Page(pres, songs, h1, <<"Artist">>, nextData, iframes) :
     pres \in {<< >>, <<<<TextNode(<<"G">>)>>>>},
     songs \in {<< >>, <<[text |-> <<"Hit">>, href |-> Str(<<"/artist/hit/">>)]>>},
     h1 \in {<< >>, <<"Song">>},
     nextData \in Islands, iframes \in IframeLists}

Pages == ClassPages \cup VideoPages

\* ------------------------------------------------------------------------
\* State
\* ------------------------------------------------------------------------
VARIABLES
  page,   \* the document under extraction (the last one fetched)
  out,    \* what each revision's handler answers for it
  cache,  \* the cifra_cache table: url -> row
  now,    \* Date.now()
  sreq,   \* a /api/search request with what its collaborators will do
  sres,   \* what each revision's search handler answers for it
  cproc,  \* the /api/cifra requests in flight, each at one of its awaits
  bproc,  \* the requests in flight on a browser-automation revision
  browserState,   \* that revision's browser state: browserInstance, connections, pages
  fproc,  \* the favorites requests in flight
  favorites   \* the rows of the favorites table

\* The state of the requests that run step by step, await by await.
stepVars == <<cproc, bproc, browserState, fproc, favorites>>

vars == <<page, out, cache, now, sreq, sres, stepVars>>

\* ------------------------------------------------------------------------
\* /api/cifra of server.js: validation, cache, fetch, extraction
\* ------------------------------------------------------------------------
MaxTicks == 2

\* const CACHE_DURATION_MS = 1000 * 60 * 60
CACHE_DURATION_MS == 1000 * 60 * 60

\* The clock advances by half the freshness window at a time.
TickMs == CACHE_DURATION_MS \div 2

UrlA == SiteOrigin \o <<"/artist/song/">>
UrlB == SiteOrigin \o <<"/artist/">>
UrlOther == <<"https://example.com", "/artist/song/">>

\* A url of another site that holds the text 'cifraclub.com.br'.
UrlLookalike == <<"https://example.com", "/", SiteName>>

\* url.trim(): leading and trailing white space removed.
RECURSIVE TrimLeft(_)
TrimLeft(txt) ==
  IF txt # << >> /\ Head(txt) = " " THEN TrimLeft(Tail(txt)) ELSE txt

RECURSIVE TrimRight(_)
TrimRight(txt) ==
  IF txt # << >> /\ txt[Len(txt)] = " "
    THEN TrimRight(SubSeq(txt, 1, Len(txt) - 1)) ELSE txt

Trim(txt) == TrimRight(TrimLeft(txt))

\* .replace(/^"|"$/g, ''): one quote at the start and one at the end removed.
StripQuotes(txt) ==
  LET a == IF txt # << >> /\ Head(txt) = "\"" THEN Tail(txt) ELSE txt
  IN IF a # << >> /\ a[Len(a)] = "\"" THEN SubSeq(a, 1, Len(a) - 1) ELSE a

\* url = url.trim().replace(/^"|"$/g, '')
CleanUrl(txt) == StripQuotes(Trim(txt))

\* url.includes('cifraclub.com.br')
IsCifraClub(txt) == \E i \in 1..Len(txt) : txt[i] = SiteName

\* The url parameter of a request: undefined, a string, or what Express
\* makes of a parameter given twice or with a key.
RawUrls ==
  {Undefined, NotAString, Str(<< >>), Str(UrlA), Str(UrlB), Str(UrlOther), Str(UrlLookalike),
   Str(<<" ", "\"">> \o UrlA \o <<"\"", " ">>)}

\* The urls that pass the validation: the keys of the cache.
CacheKeys == {UrlA, UrlB, UrlLookalike}

\* No row of cifra_cache for a url.
NoRow == [present |-> FALSE, data |-> NoResponse, timestamp |-> 0]

\* A plausible slip: <= for <, an entry of exactly one hour still served.
CacheFreshInclusive(row, time) ==
  row.present /\ time - row.timestamp <= CACHE_DURATION_MS

\* Date.now() - cachedEntry.timestamp < CACHE_DURATION_MS, on a row that
\* the SELECT returned.
CacheFresh(row, time) == row.present /\ time - row.timestamp < CACHE_DURATION_MS

\* A plausible slip: the `return` after the 404 forgotten and the store
\* left unguarded, so that whatever was answered is stored.
ResponseDataAlways(responseData) == TRUE

\* The store is reached with responseData set: the 404 returns before it
\* (line 418) and `if (responseData)` guards it (line 423).
ResponseDataSet(responseData) == responseData.status = 200

\* ------------------------------------------------------------------------
\* /api/search
\* ------------------------------------------------------------------------
MaxItems == 3
MaxAnchors == 1

\* if (results.length >= 5) return false
ScrapeResultCap == 5

SimplifiedSuffix == "/simplificada.html"

RECURSIVE RemoveFirst(_, _)
\* String.replace with a pattern that matches this token: the first
\* occurrence removed.
RemoveFirst(txt, tok) ==
  IF txt = << >> THEN << >>
  ELSE IF Head(txt) = tok THEN Tail(txt)
  ELSE <<Head(txt)>> \o RemoveFirst(Tail(txt), tok)

RECURSIVE ReplaceFirst(_, _, _)
\* String.replace(tok, by): the first occurrence replaced.
ReplaceFirst(txt, tok, by) ==
  IF txt = << >> THEN << >>
  ELSE IF Head(txt) = tok THEN <<by>> \o Tail(txt)
  ELSE <<Head(txt)>> \o ReplaceFirst(Tail(txt), tok, by)

\* .replace(/ - Cifra Club$/, ''): removed at the end only.
RemoveBrandSuffix(txt) ==
  IF txt # << >> /\ txt[Len(txt)] = " - Cifra Club"
    THEN SubSeq(txt, 1, Len(txt) - 1) ELSE txt

\* server.js: the title cleaned of the brand suffix, of "(letra da música)"
\* and of " - versão simplificada", then trimmed.
CleanTitle(title) ==
  Trim(RemoveFirst(RemoveFirst(RemoveBrandSuffix(title), "(letra da musica)"),
                   " - versao simplificada"))

\* item.link.includes('/letra/')
IsLyricsLink(link) == \E i \in 1..Len(link) : link[i] = "/letra/"

RECURSIVE MapItems(_)
\* (data.items || []).filter(...).map(...): the cleaned {title, url} of the
\* items that are no lyrics pages.
MapItems(items) ==
  IF items = << >> THEN << >>
  ELSE LET item == Head(items) IN
       (IF IsLyricsLink(item.link.s) THEN << >>
        ELSE <<[title |-> CleanTitle(item.title.s), url |-> item.link.s]>>)
       \o MapItems(Tail(items))

\* item.url.replace('/simplificada.html', '/')
BaseUrl(url) == ReplaceFirst(url, SimplifiedSuffix, "/")

\* uniqueResults.has(key), the Map being the list of its entries in
\* insertion order.
MapHas(entries, key) == \E i \in 1..Len(entries) : entries[i].key = key

\* uniqueResults.set(key, value): a new key is appended, the value of a key
\* already there is replaced in place.
MapSet(entries, key, value) ==
  IF MapHas(entries, key)
    THEN [i \in 1..Len(entries) |->
            IF entries[i].key = key THEN [key |-> key, value |-> value]
            ELSE entries[i]]
    ELSE Append(entries, [key |-> key, value |-> value])

RECURSIVE UniqueOverwriting(_, _)
\* A plausible slip: the entry is set without asking has() first.
UniqueOverwriting(results, entries) ==
  IF results = << >> THEN entries
  ELSE UniqueOverwriting(Tail(results),
         MapSet(entries, BaseUrl(Head(results).url), Head(results)))

RECURSIVE UniqueResults(_, _)
\* results.forEach(item => { if (!uniqueResults.has(baseUrl))
\* uniqueResults.set(baseUrl, item) })
UniqueResults(results, entries) ==
  IF results = << >> THEN entries
  ELSE LET item == Head(results)
           baseUrl == BaseUrl(item.url)
       IN UniqueResults(Tail(results),
            IF ~MapHas(entries, baseUrl) THEN MapSet(entries, baseUrl, item)
            ELSE entries)

\* Array.from(uniqueResults.values())
MapValues(entries) == [i \in 1..Len(entries) |-> entries[i].value]

NoSearchResponse == [status |-> 0, results |-> << >>, error |-> ""]

\* res.json(results)
SearchResults(results) == [status |-> 200, results |-> results, error |-> ""]

\* res.status(code).json({error})
SearchError(code, error) == [status |-> code, results |-> << >>, error |-> error]

\* server.js, the catch of /api/search: a success response whose list holds
\* one entry that carries the error message.
SearchDebugEntry(message) ==
  SearchResults(<<[title |-> <<"[DEBUG] Erro Interno: ", message>>, url |-> <<"#">>]>>)

\* Some item makes the filter or the map throw a TypeError: the filter
\* calls item.link.includes on every item, the map item.title.replace on the
\* items the filter kept.
BadItem(items) ==
  \E i \in 1..Len(items) :
    \/ items[i].link.t # "str"
    \/ ~IsLyricsLink(items[i].link.s) /\ items[i].title.t # "str"

\* server.js, /api/search.  up is what the Google API does: throw, answer a
\* status that is not a success, a body that is no JSON, or data with or
\* without items.
SearchApi(q) ==
  IF ~Truthy(q.query) THEN SearchError(400, "O parametro de busca q e obrigatorio.")
  ELSE IF ~q.apiKey \/ ~q.searchEngineId
    THEN SearchError(500, "Configuracao da API do Google ausente no servidor.")
  ELSE IF q.up = "throw" THEN SearchDebugEntry("fetch failed")
  ELSE IF q.up = "status" THEN SearchDebugEntry("Erro na API do Google")
  ELSE IF q.up = "parse" THEN SearchDebugEntry("Unexpected token")
  ELSE LET items == IF q.hasItems THEN q.items ELSE << >> IN
  IF BadItem(items) THEN SearchDebugEntry("TypeError")
  ELSE SearchResults(MapValues(UniqueResults(MapItems(items), << >>)))

RECURSIVE MapItemsOld(_)
\* part_001: every item, the brand suffix removed from its title, and
\* url: item.link.  res.json leaves out a key whose value is undefined, so
\* the entry of an item without link has a title only.
MapItemsOld(items) ==
  IF items = << >> THEN << >>
  ELSE LET item == Head(items)
           title == Trim(RemoveBrandSuffix(item.title.s))
       IN <<IF item.link.t = "str" THEN [title |-> title, url |-> item.link.s]
            ELSE [title |-> title]>>
          \o MapItemsOld(Tail(items))

\* part_001: the map calls item.title.replace on every item.
BadItemOld(items) == \E i \in 1..Len(items) : items[i].title.t # "str"

\* part_001, /api/search: every fault is answered with 500.
SearchApiOld(q) ==
  IF ~Truthy(q.query) THEN SearchError(400, "O parametro de busca q e obrigatorio.")
  ELSE IF ~q.apiKey \/ ~q.searchEngineId
    THEN SearchError(500, "Ocorreu um erro ao buscar os resultados.")
  ELSE IF q.up \in {"throw", "status", "parse"}
    THEN SearchError(500, "Ocorreu um erro ao buscar os resultados.")
  ELSE LET items == IF q.hasItems THEN q.items ELSE << >> IN
  IF BadItemOld(items)
    THEN SearchError(500, "Ocorreu um erro ao buscar os resultados.")
  ELSE SearchResults(MapItemsOld(items))

\* The letters, for toLowerCase.
UpperLetters ==
  <<"A", "B", "C", "D", "E", "F", "G", "H", "I", "J", "K", "L", "M",
    "N", "O", "P", "Q", "R", "S", "T", "U", "V", "W", "X", "Y", "Z">>
LowerLetters ==
  <<"a", "b", "c", "d", "e", "f", "g", "h", "i", "j", "k", "l", "m",
    "n", "o", "p", "q", "r", "s", "t", "u", "v", "w", "x", "y", "z">>

\* The character in lower case.
LowerCase(c) ==
  IF \E i \in 1..26 : UpperLetters[i] = c
    THEN LowerLetters[CHOOSE i \in 1..26 : UpperLetters[i] = c]
    ELSE c

\* 'Cifra Club', character by character.
BrandText == <<"C", "i", "f", "r", "a", " ", "C", "l", "u", "b">>

\* The text starts with 'Cifra Club' in some case (the flag i).
StartsWithBrand(txt) ==
  /\ Len(txt) >= Len(BrandText)
  /\ \A i \in 1..Len(BrandText) : LowerCase(txt[i]) = LowerCase(BrandText[i])

RECURSIVE RemoveBrandAnyCase(_)
\* .replace(/Cifra Club/gi, ''): every occurrence, in any case, of a text
\* written character by character.
RemoveBrandAnyCase(txt) ==
  IF txt = << >> THEN << >>
  ELSE IF StartsWithBrand(txt)
    THEN RemoveBrandAnyCase(SubSeq(txt, Len(BrandText) + 1, Len(txt)))
  ELSE <<Head(txt)>> \o RemoveBrandAnyCase(Tail(txt))

RECURSIVE ScrapeAnchors(_, _)
\* $('a.gs-title').each(...): at most five results, of the anchors with a
\* Cifra Club url in data-ctorig and a title.
ScrapeAnchors(anchors, results) ==
  IF anchors = << >> \/ Len(results) >= ScrapeResultCap THEN results
  ELSE LET a == Head(anchors)
           fullTitle == Trim(RemoveBrandAnyCase(a.text))
       IN ScrapeAnchors(Tail(anchors),
            IF Truthy(a.ctorig) /\ IsCifraClub(a.ctorig.s) /\ fullTitle # << >>
              THEN Append(results, [title |-> fullTitle, url |-> a.ctorig.s])
              ELSE results)

\* catch (timeoutError) { return res.json([]) }
SelectorTimeoutResponse == SearchResults(<< >>)

\* The requests the search is checked on.
SiteX == SiteOrigin \o <<"/artist/x">>
SiteY == SiteOrigin \o <<"/artist/y">>

ItemTitles == {Str(<<"X">>), Str(<<"X", " - Cifra Club">>)}

ItemLinks ==
  {Str(SiteX \o <<"/">>), Str(SiteX \o <<SimplifiedSuffix>>),
   Str(SiteY \o <<"/">>),
   Str(SiteX \o <<SimplifiedSuffix, "?v=1">>), Str(SiteX \o <<"/", "?v=1">>),
   Str(SiteOrigin \o <<"/letra/", "x">>)}

Items ==
  {[title |-> t, link |-> l] : t \in ItemTitles, l \in ItemLinks}
  \cup {[title |-> Str(<<"X">>), link |-> Undefined],
        [title |-> Undefined, link |-> Str(SiteY \o <<"/">>)],
        [title |-> Undefined, link |-> Str(SiteOrigin \o <<"/letra/", "x">>)],
        [title |-> Str(<<" ", "Y", "(letra da musica)", " - versao simplificada",
                         " - Cifra Club">>),
          link |-> Str(SiteY \o <<SimplifiedSuffix>>)]}

\* 'Cifra Club' in other cases.
BrandUpper == <<"C", "I", "F", "R", "A", " ", "C", "L", "U", "B">>
BrandLower == <<"c", "i", "f", "r", "a", " ", "c", "l", "u", "b">>

\* The a.gs-title anchors of a rendered search page: data-ctorig and text.
Anchors ==
  {[ctorig |-> Str(SiteX \o <<"/">>), text |-> <<"X", " ", "-", " ">> \o BrandText],
   [ctorig |-> Str(SiteY \o <<"/">>), text |-> BrandLower \o <<" ">> \o BrandUpper],
   [ctorig |-> Str(SiteY \o <<"/">>), text |-> <<"Y", " ">> \o BrandUpper],
   [ctorig |-> Str(<<"https://example.com", "/x">>), text |-> <<"X">>],
   [ctorig |-> Undefined, text |-> <<"X">>]}

\* What the Google API does: fetch rejects (throw), the status is not a
\* success, response.json() rejects on a body that is no JSON (parse), or
\* the data arrive (ok).
UpstreamKinds == {"throw", "status", "parse", "ok"}

\* A search request with what the Google API will do, and, when the data
\* arrive, whether they have items.
SearchRequest(query, apiKey, searchEngineId, up, hasItems, items) ==
  [query |-> query, apiKey |-> apiKey, searchEngineId |-> searchEngineId,
   up |-> up, hasItems |-> hasItems, items |-> items]

NoSearch == SearchRequest(Undefined, FALSE, FALSE, "throw", FALSE, << >>)

\* Searches through the Google API: every list of items with the API
\* configured and answering, and every fault.
SearchRequests ==
  {SearchRequest(Str(<<"x">>), TRUE, TRUE, "ok", TRUE, items) :
     items \in SeqsUpTo(Items, MaxItems)}
  \cup {SearchRequest(query, apiKey, searchEngineId, up, FALSE, << >>) :
          query \in {Undefined, Str(<< >>), Str(<<"x">>)},
          apiKey \in BOOLEAN, searchEngineId \in BOOLEAN,
          up \in UpstreamKinds}

\* Six anchors that all qualify: one more than the cap.
SixAnchors ==
  [i \in 1..6 |-> [ctorig |-> Str(SiteX \o <<"/">>),
                   text |-> <<"X", " ", "-", " ">> \o BrandText]]

\* Where the two search handlers stand (idle, fetch, json, done) and what
\* they answered.
NoSearchOut ==
  [api |-> NoSearchResponse, apiOld |-> NoSearchResponse,
   at |-> [api |-> "idle", apiOld |-> "idle"]]

\* ------------------------------------------------------------------------
\* Requests in flight
\* ------------------------------------------------------------------------
MaxRequests == 2

\* The requests the server handles at the same time.
Requests == 1..MaxRequests

\* A /api/cifra request: where it stands, its url after cleaning, what it
\* asked of the cache and of the network, the document it got, the
\* responseData and Date.now() it gave to the INSERT, and its responses.
IdleCifra ==
  [pc |-> "idle", url |-> << >>, queried |-> FALSE, fetch |-> "none",
   doc |-> Page(<< >>, << >>, << >>, << >>, Island("absent", JsonNull), << >>),
   data |-> NoResponse, stamp |-> 0, readOk |-> FALSE, stored |-> FALSE,
   res |-> NoResponse, sent |-> 0]

\* A request on a browser-automation revision: where it stands, the route,
\* the browser it was given, whether its local `page` is set, what
\* waitForSelector did, and its responses.
IdleBrowse ==
  [pc |-> "idle", kind |-> "none", conn |-> 0, page |-> 0,
   selector |-> "none", res |-> NoSearchResponse, sent |-> 0]

\* let browserInstance (undefined: 0), the browsers connected or launched
\* and not closed, the pages open, whether SIGINT has come, the browsers
\* whose close() a SIGINT handler awaits, and whether the process has ended.
NoBrowser(rev, apiKey) ==
  [rev |-> rev, apiKey |-> apiKey, instance |-> 0, conns |-> {}, pages |-> {},
   sigint |-> FALSE, closingConns |-> {}, exited |-> FALSE]

\* A favorites request: where it stands, the route, req.user.id, the url of
\* the body, whether the local `artist` holds a value when the INSERT is
\* sent, whether a query of its failed for a reason of the database's own,
\* and the status it answered with.
IdleFav ==
  [pc |-> "idle", op |-> "none", user |-> 0, url |-> << >>, artist |-> FALSE,
   fault |-> FALSE, status |-> 0]

\* No request in flight.
NothingInFlight ==
  /\ cproc = [r \in Requests |-> IdleCifra]
  /\ bproc = [r \in Requests |-> IdleBrowse]
  /\ browserState = NoBrowser("part_000", FALSE)
  /\ fproc = [r \in Requests |-> IdleFav]
  /\ favorites = << >>

EmptyPage == Page(<< >>, << >>, << >>, << >>, Island("absent", JsonNull), << >>)

NoOut == [cifra |-> NoResponse, scrapeBrowser |-> NoResponse,
          scrapeFetch |-> NoResponse]

\* ------------------------------------------------------------------------
\* Extraction alone: one document, given to each revision's handler
\* ------------------------------------------------------------------------
InitExtract ==
  /\ page \in Pages
  /\ out = NoOut
  /\ cache = [u \in CacheKeys |-> NoRow]
  /\ now = 0
  /\ sreq = NoSearch
  /\ sres = NoSearchOut
  /\ NothingInFlight

\* server.js, /api/cifra
ApiCifraExtract ==
  /\ out.cifra = NoResponse
  /\ out' = [out EXCEPT !.cifra = ExtractContent(page)]
  /\ UNCHANGED <<page, cache, now, sreq, sres, stepVars>>

\* part_000 and part_002, /api/scrape
ApiScrapeBrowserExtract ==
  /\ out.scrapeBrowser = NoResponse
  /\ out' = [out EXCEPT !.scrapeBrowser = ScrapeBrowserExtract(page)]
  /\ UNCHANGED <<page, cache, now, sreq, sres, stepVars>>

\* part_001, /api/scrape
ApiScrapeFetchExtract ==
  /\ out.scrapeFetch = NoResponse
  /\ out' = [out EXCEPT !.scrapeFetch = ScrapeFetchExtract(page)]
  /\ UNCHANGED <<page, cache, now, sreq, sres, stepVars>>

NextExtract ==
  \/ ApiCifraExtract
  \/ ApiScrapeBrowserExtract
  \/ ApiScrapeFetchExtract

SpecExtract == InitExtract /\ [][NextExtract]_vars

\* ------------------------------------------------------------------------
\* Search alone: one request, given to each revision's handler
\* ------------------------------------------------------------------------
InitSearch ==
  /\ page = EmptyPage
  /\ out = NoOut
  /\ cache = [u \in CacheKeys |-> NoRow]
  /\ now = 0
  /\ sreq \in SearchRequests
  /\ sres = NoSearchOut
  /\ NothingInFlight

\* The revisions that search through the Google API: server.js and
\* part_001.
SearchRevisions == {"api", "apiOld"}

\* What the handler of the revision answers to a request.
SearchOf(rev, q) == IF rev = "api" THEN SearchApi(q) ELSE SearchApiOld(q)

\* The handler answers and ends.
SearchEnd(rev) ==
  sres' = [sres EXCEPT ![rev] = SearchOf(rev, sreq), !.at[rev] = "done"]

\* The request arrives: without a query, or without the configuration of
\* the Google API, the handler answers; otherwise fetch is called.
SearchStart(rev) ==
  /\ sres.at[rev] = "idle"
  /\ IF ~Truthy(sreq.query) \/ ~sreq.apiKey \/ ~sreq.searchEngineId
       THEN SearchEnd(rev)
       ELSE sres' = [sres EXCEPT !.at[rev] = "fetch"]
  /\ UNCHANGED <<page, out, cache, now, sreq, stepVars>>

\* await fetch(...) settles: a rejection goes to the catch, otherwise
\* response.json() is called (on an error status too, before the throw).
SearchFetch(rev) ==
  /\ sres.at[rev] = "fetch"
  /\ IF sreq.up = "throw"
       THEN SearchEnd(rev)
       ELSE sres' = [sres EXCEPT !.at[rev] = "json"]
  /\ UNCHANGED <<page, out, cache, now, sreq, stepVars>>

\* await response.json() settles: its rejection goes to the catch, the
\* error status is thrown, or the items are mapped and answered.
SearchJson(rev) ==
  /\ sres.at[rev] = "json"
  /\ SearchEnd(rev)
  /\ UNCHANGED <<page, out, cache, now, sreq, stepVars>>

NextSearch ==
  \E rev \in SearchRevisions :
    \/ SearchStart(rev)
    \/ SearchFetch(rev)
    \/ SearchJson(rev)

SpecSearch == InitSearch /\ [][NextSearch]_vars

\* ------------------------------------------------------------------------
\* What the claims say of the extraction, stated apart from the handlers
\* ------------------------------------------------------------------------
RECURSIVE HasTextOrChord(_)
\* Some text, or some emphasis element, below these nodes: what makes the
\* normalized chord block non-empty.
HasTextOrChord(kids) ==
  \E i \in 1..Len(kids) :
    \/ kids[i].tag = "#text" /\ kids[i].data # << >>
    \/ kids[i].tag = "b"
    \/ HasTextOrChord(kids[i].kids)

\* The page holds a chord block that is non-empty after normalization.
ChordBlockPresent(p) == \E i \in 1..Len(p.pres) : HasTextOrChord(p.pres[i])

RECURSIVE EveryBracketed(_)
\* The text with every emphasis element, nested ones too, given brackets
\* of its own.
EveryBracketed(kids) ==
  IF kids = << >> THEN << >>
  ELSE LET n == Head(kids) IN
       (IF n.tag = "#text" THEN n.data
        ELSE IF n.tag = "b" THEN <<"[">> \o EveryBracketed(n.kids) \o <<"]">>
        ELSE EveryBracketed(n.kids))
       \o EveryBracketed(Tail(kids))

RECURSIVE OuterBracketed(_)
\* The text with every emphasis element that lies in no other emphasis
\* element replaced by its text in brackets.
OuterBracketed(kids) ==
  IF kids = << >> THEN << >>
  ELSE LET n == Head(kids) IN
       (IF n.tag = "#text" THEN n.data
        ELSE IF n.tag = "b" THEN <<"[">> \o KidsText(n.kids) \o <<"]">>
        ELSE OuterBracketed(n.kids))
       \o OuterBracketed(Tail(kids))

RECURSIVE OuterChords(_)
\* The number of emphasis elements that lie in no other emphasis element.
OuterChords(kids) ==
  IF kids = << >> THEN 0
  ELSE (IF Head(kids).tag = "b" THEN 1
        ELSE IF Head(kids).tag = "#text" THEN 0
        ELSE OuterChords(Head(kids).kids))
       + OuterChords(Tail(kids))

RECURSIVE OverPres(_, _)
\* The texts of the page's chord blocks, one after the other; which selects
\* the bracketing.
OverPres(pres, which) ==
  IF pres = << >> THEN << >>
  ELSE (IF which = "every" THEN EveryBracketed(Head(pres))
        ELSE OuterBracketed(Head(pres)))
       \o OverPres(Tail(pres), which)

RECURSIVE OuterChordsOfPres(_)
OuterChordsOfPres(pres) ==
  IF pres = << >> THEN 0
  ELSE OuterChords(Head(pres)) + OuterChordsOfPres(Tail(pres))

CountToken(txt, tok) == Cardinality({i \in 1..Len(txt) : txt[i] = tok})

\* The tokens of serialized markup.
MarkupTokens == {"<b>", "</b>", "<span>", "</span>"}

\* C1: the classification of /api/cifra is total and first match wins: a
\* chord sheet if the chord block is present and non-empty after
\* normalization, else an artist listing if the song list has an entry,
\* else not found (404); a page with both a chord block and a song list is
\* never an artist listing.
C1_ClassificationPriority ==
  out.cifra # NoResponse =>
    LET r == out.cifra
        chord == ChordBlockPresent(page)
        listing == Len(page.songs) > 0
    IN /\ r.type \in {"cifra", "artist", "error"}
       /\ chord => r.type = "cifra" /\ r.status = 200
       /\ ~chord /\ listing => r.type = "artist" /\ r.status = 200
       /\ ~chord /\ ~listing => r.type = "error" /\ r.status = 404

\* A page with a non-empty chord block and a song list was answered as a
\* chord sheet.
C1_Witness ==
  /\ ChordBlockPresent(page)
  /\ Len(page.songs) > 0
  /\ out.cifra.type = "cifra"

\* Two responses carry the same extraction result.
SameExtraction(r, q) ==
  /\ r.status = q.status
  /\ r.type = q.type
  /\ r.artist = q.artist
  /\ r.song = q.song
  /\ r.content = q.content
  /\ r.songs = q.songs
  /\ r.hasVideoId = q.hasVideoId
  /\ r.videoId = q.videoId

\* C4: for the same document, /api/cifra of server.js and /api/scrape of
\* the browser-automation revisions give the same extraction result.
C4_SameResultWhateverTheFetcher ==
  (out.cifra # NoResponse /\ out.scrapeBrowser # NoResponse) =>
    SameExtraction(out.cifra, out.scrapeBrowser)

\* The identifier the data island yields, following the two paths as the
\* claim names them.
IslandPrimary(j) ==
  IF j.root = "obj" /\ j.props = "obj" /\ j.pageProps = "obj" /\ j.video = "obj"
    THEN j.videoId ELSE Undefined

IslandAlternate(j) ==
  IF /\ j.root = "obj" /\ j.props = "obj" /\ j.pageProps = "obj"
     /\ j.songData = "obj" /\ j.sdVideo = "obj"
    THEN j.sdVideoId ELSE Undefined

\* An identifier is present: a non-empty string.
IdPresent(v) == v.t = "str" /\ v.s # << >>

\* The data island yields no identifier.
IslandYieldsNothing(island) ==
  \/ island.script # "json"
  \/ /\ ~IdPresent(IslandPrimary(island.json))
     /\ ~IdPresent(IslandAlternate(island.json))

C8_IframeFallback ==
  (/\ out.cifra.type = "cifra"
   /\ IslandYieldsNothing(page.nextData)
   /\ FirstEmbed(page.iframes).found) =>
    out.cifra.videoId = Str(<<"vidX">>)

\* C9: when the data island parses, the videoId is the identifier at
\* props.pageProps.video.youtube_id if one is present, else the one at
\* props.pageProps.songData.video.youtube_id if present, else none.
C9_PrimaryPathFirst ==
  (out.cifra.type = "cifra" /\ page.nextData.script = "json") =>
    LET j == page.nextData.json IN
    out.cifra.videoId =
      IF IdPresent(IslandPrimary(j)) THEN IslandPrimary(j)
      ELSE IF IdPresent(IslandAlternate(j)) THEN IslandAlternate(j)
      ELSE Null

\* Both paths hold an identifier and the primary one was returned.
C9_Witness ==
  /\ page.nextData.script = "json"
  /\ IslandPrimary(page.nextData.json) = Str(<<"idA">>)
  /\ IslandAlternate(page.nextData.json) = Str(<<"idB">>)
  /\ out.cifra.type = "cifra"
  /\ out.cifra.videoId = Str(<<"idA">>)

\* C10: a page with a malformed data island is answered as the same page
\* without the data island, the video identifier aside, and the parse error
\* is not reported.
C10_MalformedIslandIgnored ==
  (page.nextData.script = "malformed" /\ out.cifra # NoResponse) =>
    LET r == out.cifra
        q == ExtractContent([page EXCEPT !.nextData = Island("absent", JsonNull)])
    IN /\ r.status = q.status
       /\ r.type = q.type
       /\ r.artist = q.artist
       /\ r.song = q.song
       /\ r.content = q.content
       /\ r.songs = q.songs
       /\ r.status # 500
       /\ r.details = ""

\* Pages with a malformed data island were answered as a chord sheet.
C10_Witness ==
  /\ page.nextData.script = "malformed"
  /\ out.cifra.type = "cifra"
  /\ out.cifra.content = <<"G">>

\* ------------------------------------------------------------------------
\* What the claims say of the search, stated apart from the handlers
\* ------------------------------------------------------------------------
\* The request reaches the Google API, which answers with well-formed items.
SearchAnswered(q) ==
  /\ Truthy(q.query) /\ q.apiKey /\ q.searchEngineId /\ q.up = "ok"
  /\ ~BadItem(IF q.hasItems THEN q.items ELSE << >>)

\* The candidates of the deduplication: the cleaned entries, in input order.
Candidates(q) == MapItems(IF q.hasItems THEN q.items ELSE << >>)

\* The url with a '/simplificada.html' at its end collapsed to '/'.
SuffixCanonical(url) ==
  IF url # << >> /\ url[Len(url)] = SimplifiedSuffix
    THEN SubSeq(url, 1, Len(url) - 1) \o <<"/">>
    ELSE url

\* The url with its first '/simplificada.html', wherever it stands,
\* replaced by '/'.
FirstOccurrenceCanonical(url) ==
  LET at == {i \in 1..Len(url) : url[i] = SimplifiedSuffix} IN
  IF at = {} THEN url
  ELSE [url EXCEPT ![CHOOSE i \in at : \A k \in at : i <= k] = "/"]

\* The candidates that are the first of their canonical url, in input order.
FirstPerCanonical(cands, Canon(_)) ==
  LET keep == {i \in 1..Len(cands) :
                 \A j \in 1..(i - 1) : Canon(cands[j].url) # Canon(cands[i].url)}
      RECURSIVE Pick(_)
      Pick(i) == IF i > Len(cands) THEN << >>
                 ELSE (IF i \in keep THEN <<cands[i]>> ELSE << >>) \o Pick(i + 1)
  IN Pick(1)

\* C5: when a simplified-version candidate and its standard counterpart
\* both appear, the entry returned for the song is the standard one (the
\* candidates [x/simplificada.html 'X - Cifra Club', x/ 'X'] give exactly
\* [{title 'X', url x/}]).
C5_StandardVersionReturned ==
  (sres.api # NoSearchResponse /\ SearchAnswered(sreq)) =>
    LET cands == Candidates(sreq)
        r == sres.api.results
    IN \A i \in 1..Len(cands), j \in 1..Len(cands) :
         (/\ cands[i].url # << >>
          /\ cands[i].url[Len(cands[i].url)] = SimplifiedSuffix
          /\ cands[j].url = SuffixCanonical(cands[i].url)) =>
           /\ \E k \in 1..Len(r) : r[k].url = cands[j].url
           /\ \A k \in 1..Len(r) : r[k].url # cands[i].url

\* C6 as stated: the result is the candidates that are the first of their
\* canonical url, the canonical url being the url with the
\* '/simplificada.html' suffix collapsed to '/'.
C6_FirstPerSuffixCanonical ==
  (sres.api # NoSearchResponse /\ SearchAnswered(sreq)) =>
    sres.api.results = FirstPerCanonical(Candidates(sreq), SuffixCanonical)

\* C6, amended: the result holds at most one entry per canonical url, the
\* canonical url being the url with its first '/simplificada.html',
\* wherever it stands, replaced by '/'; the entry kept is the first
\* candidate with that canonical url, and the kept entries stand in input
\* order.
C6_FirstPerCanonical ==
  (sres.api # NoSearchResponse /\ SearchAnswered(sreq)) =>
    LET r == sres.api.results IN
    /\ sres.api.status = 200
    /\ \A a \in 1..Len(r), b \in 1..Len(r) :
         a # b => FirstOccurrenceCanonical(r[a].url) # FirstOccurrenceCanonical(r[b].url)
    /\ r = FirstPerCanonical(Candidates(sreq), FirstOccurrenceCanonical)

\* A simplified version, then its standard version under another title,
\* then another song: the first and the third were returned.
C6_Witness ==
  /\ SearchAnswered(sreq)
  /\ Len(sreq.items) = 3
  /\ sreq.items[1] = [title |-> Str(<<"X", " - Cifra Club">>),
                      link |-> Str(SiteX \o <<SimplifiedSuffix>>)]
  /\ sreq.items[2].link = Str(SiteX \o <<"/">>)
  /\ sreq.items[3].link = Str(SiteY \o <<"/">>)
  /\ sres.api.status = 200
  /\ Len(sres.api.results) = 2
  /\ sres.api.results[1] = [title |-> <<"X">>, url |-> SiteX \o <<SimplifiedSuffix>>]
  /\ sres.api.results[2].url = SiteY \o <<"/">>

\* An internal fault of the search through the Google API, the query being
\* accepted: in server.js, and in part_001.
ApiFault(q) ==
  /\ Truthy(q.query)
  /\ \/ ~q.apiKey \/ ~q.searchEngineId
     \/ q.up \in {"throw", "status", "parse"}
     \/ BadItem(IF q.hasItems THEN q.items ELSE << >>)

ApiFaultOld(q) ==
  /\ Truthy(q.query)
  /\ \/ ~q.apiKey \/ ~q.searchEngineId
     \/ q.up \in {"throw", "status", "parse"}
     \/ BadItemOld(IF q.hasItems THEN q.items ELSE << >>)

\* A success response with an empty list.
EmptySuccess(r) == r.status = 200 /\ r.results = << >>

\* C7: on any internal fault after the query was accepted, the search
\* request completes with a success response whose body is an empty list.
C7_FaultsGiveEmptyList ==
  /\ (sres.api # NoSearchResponse /\ ApiFault(sreq)) => EmptySuccess(sres.api)
  /\ (sres.apiOld # NoSearchResponse /\ ApiFaultOld(sreq)) => EmptySuccess(sres.apiOld)

\* ------------------------------------------------------------------------
\* /api/cifra of server.js await by await, several requests at a time
\* ------------------------------------------------------------------------
SitePage(pres, songs, h1) ==
  Page(pres, songs, h1, <<"Artist">>, Island("absent", JsonNull), << >>)

\* The documents the network serves at a url; the song page changes from
\* one fetch to the next.
SiteAt(url) ==
  IF url = UrlA
    THEN {SitePage(<<<<TextNode(<<"G">>)>>>>, << >>, <<"Song">>),
          SitePage(<<<<Elem("b", <<TextNode(<<"D">>)>>)>>>>, << >>, <<"Song">>)}
  ELSE IF url = UrlB
    THEN {SitePage(<<<< >>>>, <<[text |-> <<"Hit">>, href |-> Str(<<"/artist/hit/">>)]>>,
                   <<"Artist">>),
          SitePage(<< >>, << >>, <<"Artist">>)}
  ELSE {SitePage(<<<<TextNode(<<"D">>)>>>>, << >>, <<"Elsewhere">>)}

\* What await fetch(url) may do: reject, or resolve with a status that is a
\* success or not.
FetchKinds == {"throw", "status", "ok"}

\* What await response.text() may do for a url: reject, or give a document.
TextAt(url) ==
  {[kind |-> "abort", page |-> EmptyPage]}
  \cup {[kind |-> "ok", page |-> d] : d \in SiteAt(url)}

\* res.json(...) or res.status(...).json(...): the request has answered.
Respond(p, response) ==
  [p EXCEPT !.res = response, !.sent = @ + 1, !.pc = "done"]

\* A plausible slip: `url` declared outside the handler, so that the store
\* uses the url of whichever request assigned it last.
StoreKeyShared(procs, r) ==
  LET others == {o \in DOMAIN procs : o # r /\ procs[o].pc \in {"select", "fetch", "insert"}}
  IN IF others = {} THEN procs[r].url ELSE procs[CHOOSE o \in others : TRUE].url

\* The key of the INSERT: the handler's own `url` (let { url } = req.query).
StoreKey(procs, r) == procs[r].url

\* The variables the step-wise handlers leave alone: those of the
\* extraction and of the search, and the clock.
restVars == <<page, out, now, sreq, sres>>

\* The handler throws outside its try blocks: the promise of the async
\* handler rejects and the request is never answered.  server.js logs the
\* rejection (18-20) and goes on; part_000 and part_002 register no
\* handler for it, and there the process ends with it.
HandlerRejects(p) == [p EXCEPT !.pc = "rejected"]

\* Lines 305-324: the request arrives, is validated and the SELECT is sent.
\* url.trim() of line 315, outside the try blocks, throws on a url that is
\* no string.
CifraReceive(r) ==
  /\ cproc[r].pc \in {"idle", "done", "rejected"}
  /\ \E rawUrl \in RawUrls :
       LET url == CleanUrl(rawUrl.s) IN
       cproc' = [cproc EXCEPT ![r] =
         IF ~Truthy(rawUrl)
           THEN Respond(IdleCifra, ErrorResponse(400, "O parametro url e obrigatorio.", ""))
         ELSE IF rawUrl.t # "str" THEN HandlerRejects(IdleCifra)
         ELSE IF ~IsCifraClub(url)
           THEN Respond([IdleCifra EXCEPT !.url = url],
                        ErrorResponse(400, "A URL fornecida nao e do Cifra Club.", ""))
         ELSE [IdleCifra EXCEPT !.url = url, !.queried = TRUE, !.pc = "select"]]
  /\ UNCHANGED <<restVars, cache, bproc, browserState, fproc, favorites>>

\* Lines 324-342: the SELECT answers or fails (the failure is logged and
\* the handler goes on); a row younger than the window, by Date.now() at
\* that moment, is answered, otherwise fetch(url) is called.
CifraSelect(r) ==
  /\ cproc[r].pc = "select"
  /\ \E ok \in BOOLEAN :
       LET p == [cproc[r] EXCEPT !.readOk = ok] IN
       cproc' = [cproc EXCEPT ![r] =
         IF ok /\ CacheFresh(cache[p.url], now)
           THEN Respond(p, cache[p.url].data)
           ELSE [p EXCEPT !.fetch = "pending", !.pc = "fetch"]]
  /\ UNCHANGED <<restVars, cache, bproc, browserState, fproc, favorites>>

\* The catch of lines 437-440: 500 with error.message as details.
CifraCaught(p, details) ==
  Respond(p, ErrorResponse(500, "Ocorreu um erro ao obter o conteudo da cifra.", details))

\* Lines 342-352: await fetch(url) settles.  A rejection and a status that
\* is not a success go to the catch; otherwise response.text() is called.
CifraFetch(r) ==
  /\ cproc[r].pc = "fetch"
  /\ \E kind \in FetchKinds :
       LET p == [cproc[r] EXCEPT !.fetch = kind] IN
       cproc' = [cproc EXCEPT ![r] =
         IF kind = "throw" THEN CifraCaught(p, "fetch failed")
         ELSE IF kind = "status" THEN CifraCaught(p, "Erro ao carregar a pagina da cifra")
         ELSE [p EXCEPT !.pc = "text"]]
  /\ UNCHANGED <<restVars, cache, bproc, browserState, fproc, favorites>>

\* Lines 352-429: await response.text() settles.  A rejection goes to the
\* catch; the document is classified and either answered with 404, or the
\* upsert is sent with responseData and Date.now().
CifraText(r) ==
  /\ cproc[r].pc = "text"
  /\ \E t \in TextAt(cproc[r].url) :
       LET p == cproc[r]
           data == ExtractContent(t.page)
       IN cproc' = [cproc EXCEPT ![r] =
            IF t.kind = "abort" THEN CifraCaught([p EXCEPT !.fetch = "abort"], "aborted")
            ELSE IF ~ResponseDataSet(data) THEN Respond([p EXCEPT !.doc = t.page], data)
            ELSE [p EXCEPT !.doc = t.page, !.data = data, !.stamp = now, !.pc = "insert"]]
  /\ UNCHANGED <<restVars, cache, bproc, browserState, fproc, favorites>>

\* Lines 426-434: the upsert, one statement, is done or fails (the failure
\* is logged); responseData is answered and the handler's locals are gone.
CifraInsert(r) ==
  /\ cproc[r].pc = "insert"
  /\ \E ok \in BOOLEAN :
       /\ cache' = IF ok
                     THEN [cache EXCEPT ![StoreKey(cproc, r)] =
                             [present |-> TRUE, data |-> cproc[r].data,
                              timestamp |-> cproc[r].stamp]]
                     ELSE cache
       /\ cproc' = [cproc EXCEPT ![r] =
            Respond([cproc[r] EXCEPT !.stored = ok, !.data = NoResponse, !.stamp = 0],
                    cproc[r].data)]
  /\ UNCHANGED <<restVars, bproc, browserState, fproc, favorites>>

\* Time passes, between the requests and between the awaits of a request.
Tick ==
  /\ now < MaxTicks * TickMs
  /\ now' = now + TickMs
  /\ UNCHANGED <<page, out, cache, sreq, sres, stepVars>>

InitConc ==
  /\ page = EmptyPage
  /\ out = NoOut
  /\ cache = [u \in CacheKeys |-> NoRow]
  /\ now = 0
  /\ sreq = NoSearch
  /\ sres = NoSearchOut
  /\ NothingInFlight

NextConc ==
  \/ \E r \in Requests : CifraReceive(r)
  \/ \E r \in Requests : CifraSelect(r)
  \/ \E r \in Requests : CifraFetch(r)
  \/ \E r \in Requests : CifraText(r)
  \/ \E r \in Requests : CifraInsert(r)
  \/ Tick

SpecConc == InitConc /\ [][NextConc]_vars

\* ------------------------------------------------------------------------
\* What the claims say of the requests to /api/cifra
\* ------------------------------------------------------------------------
\* C2: a chord sheet that is returned, or stored in the cache, never has an
\* empty content; a page with an empty chord block and a non-empty song
\* list is answered as an artist listing.
C2_ChordSheetContentNotEmpty ==
  /\ \A r \in Requests :
       cproc[r].res.type = "cifra" => cproc[r].res.content # << >>
  /\ \A u \in CacheKeys :
       (cache[u].present /\ cache[u].data.type = "cifra") =>
         cache[u].data.content # << >>
  /\ \A r \in Requests :
       (/\ cproc[r].pc = "done" /\ cproc[r].res.status \in {200, 404}
        /\ Len(cproc[r].doc.pres) > 0 /\ ~ChordBlockPresent(cproc[r].doc)
        /\ Len(cproc[r].doc.songs) > 0) =>
         cproc[r].res.type = "artist"

\* A page with an empty <pre> and a song list was fetched, answered as an
\* artist listing and stored, while another url holds a chord sheet.
C2_Witness ==
  \E r \in Requests :
    /\ cproc[r].pc = "done" /\ cproc[r].stored
    /\ cproc[r].doc.pres = << << >> >>
    /\ Len(cproc[r].doc.songs) > 0
    /\ cproc[r].res.type = "artist"
    /\ \E u \in CacheKeys : cache[u].present /\ cache[u].data.type = "cifra"

\* The row an upsert leaves.
RowOf(data, time) == [present |-> TRUE, data |-> data, timestamp |-> time]

\* An entry changes only to the result of a request for its url that was
\* fetched and classified, and a request that ends in an error response
\* ends with no change.
CacheChangesOnlyOnSuccess ==
  /\ \A u \in CacheKeys :
       cache'[u] # cache[u] =>
         \E r \in Requests :
           /\ cproc[r].pc = "insert" /\ cproc'[r].pc = "done"
           /\ cproc[r].url = u
           /\ cproc[r].fetch = "ok"
           /\ cproc'[r].res.type \in {"cifra", "artist"}
           /\ cache'[u] = RowOf(cproc'[r].res, cproc[r].stamp)
  /\ \A r \in Requests :
       (/\ cproc[r].pc # "done" /\ cproc'[r].pc = "done"
        /\ cproc'[r].res.status \in {400, 404, 500}) =>
         cache' = cache

\* C11: every cache entry holds a chord sheet or an artist listing, an
\* entry changes only to the result of a request for its url that was
\* classified as one of the two, and a request that ends in 400, 404 or 500
\* leaves the cache unchanged.
C11_CacheWrittenOnlyAfterSuccess ==
  /\ [](\A u \in CacheKeys :
          cache[u].present =>
            cache[u].data.status = 200 /\ cache[u].data.type \in {"cifra", "artist"})
  /\ [][CacheChangesOnlyOnSuccess]_vars

\* A request was fetched and answered 404, and its url still holds the
\* artist listing an earlier request stored.
C11_Witness ==
  \E r \in Requests :
    /\ cproc[r].pc = "done" /\ cproc[r].fetch = "ok"
    /\ cproc[r].res.status = 404
    /\ cache[cproc[r].url].present
    /\ cache[cproc[r].url].data.type = "artist"

\* One hour, in milliseconds.
OneHourMs == 60 * 60 * 1000

\* The entry of url u is younger than one hour.
YoungerThanOneHour(u) == cache[u].present /\ now - cache[u].timestamp < OneHourMs

\* Request r has the answer of its cache query in this step.
CacheAnswers(r) == cproc[r].pc = "select" /\ cproc'[r].pc # "select"

\* Request r is answered from the cache, without a fetch.
ServedFromCache(r) ==
  /\ cproc'[r].pc = "done"
  /\ cproc'[r].fetch = "none"
  /\ cproc'[r].res = cache[cproc[r].url].data
  /\ cache' = cache

\* Request r, its document classified as a chord sheet or an artist
\* listing, ends in this step.
ClassifiedEnds(r) == cproc[r].pc = "insert" /\ cproc'[r].pc = "done"

\* The entry of request r's url is replaced by its result and timestamp.
EntryReplaced(r) ==
  cache' = [cache EXCEPT ![cproc[r].url] = RowOf(cproc[r].data, cproc[r].stamp)]

\* C12 as stated: a request whose entry is younger than one hour is
\* answered from the cache without a fetch; any other request fetches, and
\* a successful classification then replaces the entry and its timestamp.
C12_ReadThroughOneHour ==
  [][\A r \in Requests :
       /\ CacheAnswers(r) =>
            IF YoungerThanOneHour(cproc[r].url)
              THEN ServedFromCache(r)
              ELSE cproc'[r].pc = "fetch"
       /\ ClassifiedEnds(r) => EntryReplaced(r)]_vars

\* C12, amended: the same, provided the two cache queries succeed.  A
\* request whose cache read fails fetches as on a miss whatever the entry's
\* age; a successful classification whose cache write fails is answered
\* all the same and leaves the entry as it was.
C12_ReadThroughWhenCacheAnswers ==
  [][\A r \in Requests :
       /\ CacheAnswers(r) =>
            IF cproc'[r].readOk /\ YoungerThanOneHour(cproc[r].url)
              THEN ServedFromCache(r)
              ELSE cproc'[r].pc = "fetch"
       /\ ClassifiedEnds(r) =>
            /\ cproc'[r].res = cproc[r].data
            /\ IF cproc'[r].stored THEN EntryReplaced(r) ELSE cache' = cache]_vars

\* Half an hour after an entry was stored, a request for its url was
\* answered from the cache.
C12_HitWitness ==
  \E r \in Requests :
    /\ cproc[r].pc = "done" /\ cproc[r].readOk /\ cproc[r].fetch = "none"
    /\ cproc[r].res.status = 200
    /\ now = TickMs
    /\ cache[cproc[r].url].timestamp = 0
    /\ cproc[r].res = cache[cproc[r].url].data

\* The url is a url of the Cifra Club site.
OnTargetSite(url) ==
  Len(url) >= Len(SiteOrigin) /\ SubSeq(url, 1, Len(SiteOrigin)) = SiteOrigin

\* C13: a request whose url is missing or is not of the target site is
\* rejected before any cache query or network call: every url that is
\* looked up in the cache or fetched is a url of the target site.
C13_OnlyTargetSiteFetched ==
  \A r \in Requests :
    /\ (cproc[r].queried \/ cproc[r].fetch # "none") => OnTargetSite(cproc[r].url)
    /\ (cproc[r].pc \in {"done", "rejected"} /\ ~OnTargetSite(cproc[r].url)) =>
         cproc[r].res.status = 400

\* The document matches neither shape.
NeitherShape(doc) == ~ChordBlockPresent(doc) /\ Len(doc.songs) = 0

\* A failed fetch (exception, non-success status, body not read) is
\* answered with 500 and its reason, a document fetched that matches
\* neither shape with 404, never one for the other.
TransportErrorAndNotFoundDistinct ==
  \A r \in Requests :
    LET p == cproc[r] IN
    p.pc = "done" =>
      /\ p.fetch \in {"throw", "status", "abort"} =>
           p.res.status = 500 /\ p.res.details # ""
      /\ (p.fetch = "ok" /\ NeitherShape(p.doc)) => p.res.status = 404
      /\ p.res.status = 500 => p.fetch \in {"throw", "status", "abort"}
      /\ p.res.status = 404 => p.fetch = "ok" /\ NeitherShape(p.doc)

\* No request answers twice.
AtMostOneResponse == \A r \in Requests : cproc[r].sent <= 1

\* A request whose handler has ended has answered, once.
ExactlyOneResponse ==
  /\ AtMostOneResponse
  /\ \A r \in Requests :
       cproc[r].pc \in {"done", "rejected"} <=> cproc[r].sent = 1

\* C16: a failed fetch is answered with 500 and its reason, a document
\* fetched that matches neither shape with 404, never one for the other,
\* and every request answers exactly once.
C16_TransportErrorAndNotFoundDistinct ==
  TransportErrorAndNotFoundDistinct /\ ExactlyOneResponse

\* The complete results a request for url u can produce.
ResultsAt(u) == {d \in {ExtractContent(doc) : doc \in SiteAt(u)} : d.status = 200}

\* Every entry, and every answer, is a complete result of its own url.
EntriesAreWholeResults ==
  /\ \A u \in CacheKeys : cache[u].present => cache[u].data \in ResultsAt(u)
  /\ \A r \in Requests :
       (cproc[r].pc = "done" /\ cproc[r].res.status = 200) =>
         cproc[r].res \in ResultsAt(cproc[r].url)

\* An entry changes only to what one request for its url stores, the other
\* entries staying as they were; a read returns the entry as it is then.
LastWriterWins ==
  /\ \A u \in CacheKeys :
       cache'[u] # cache[u] =>
         /\ \E r \in Requests :
              /\ cproc[r].pc = "insert" /\ cproc'[r].pc = "done"
              /\ cproc[r].url = u
              /\ cache'[u] = RowOf(cproc[r].data, cproc[r].stamp)
         /\ \A v \in CacheKeys \ {u} : cache'[v] = cache[v]
  /\ \A r \in Requests :
       (cproc[r].pc = "select" /\ cproc'[r].pc = "done") =>
         cproc'[r].res = cache[cproc[r].url].data

\* C17: under every interleaving, each cache entry is the complete result
\* written by one request for its url (last writer wins), and a reader sees
\* the entry as it was before or after a write.
C17_CacheLastWriterWins == []EntriesAreWholeResults /\ [][LastWriterWins]_vars

\* Two requests for the same url both fetched and stored, with different
\* results; the entry is one of the two.
C17_Witness ==
  \E r, o \in Requests :
    /\ cproc[r].pc = "done" /\ cproc[o].pc = "done"
    /\ cproc[r].url = UrlA /\ cproc[o].url = UrlA
    /\ cproc[r].fetch = "ok" /\ cproc[o].fetch = "ok"
    /\ cproc[r].res # cproc[o].res
    /\ cache[UrlA].present /\ cache[UrlA].data = cproc[o].res

\* ------------------------------------------------------------------------
\* The browser-automation revisions await by await (part_000, part_002)
\* ------------------------------------------------------------------------
\* part_000 shares one browser through startBrowser; part_002 launches a
\* browser in every request.
Revisions == {"part_000", "part_002"}

\* The routes: /api/search and /api/scrape.
BrowseKinds == {"search", "scrape"}

\* finally { if (page) await page.close(); if (browser) await
\* browser.close(); }: where the handler goes on leaving the try block.
\* The second test is part_002's, whose `browser` is a local that is set
\* once launch() has returned.
Finally(p) ==
  IF p.page # 0 THEN "closePage"
  ELSE IF browserState.rev = "part_002" /\ p.conn # 0 THEN "closeBrowser"
  ELSE "done"

\* A response sent inside the try block: the finally block follows.
Answer(p, response) ==
  [p EXCEPT !.res = response, !.sent = @ + 1, !.pc = Finally(p)]

\* The catch of the handler: 500 with the route's message.
Caught(p) ==
  Answer(p, SearchError(500, IF p.kind = "search"
                               THEN "Ocorreu um erro ao buscar as cifras."
                               ELSE "Ocorreu um erro ao obter o conteudo da cifra."))

\* The parameter of a request: q of /api/search, url of /api/scrape.
BrowseParams(kind) ==
  IF kind = "search" THEN {Undefined, Str(<< >>), Str(<<"x">>)} ELSE RawUrls

\* url.trim() of /api/scrape, before the try block, throws on a url that
\* is no string.
TrimThrows(kind, param) == kind = "scrape" /\ Truthy(param) /\ param.t # "str"

\* The 400 sent before the try block, if any: the parameter is missing, or
\* the url of /api/scrape, cleaned, does not hold the site's name.
Rejected(kind, param) ==
  IF ~Truthy(param)
    THEN SearchError(400, IF kind = "search"
                            THEN "O parametro de busca q e obrigatorio."
                            ELSE "O parametro url e obrigatorio.")
  ELSE IF kind = "scrape" /\ param.t = "str" /\ ~IsCifraClub(CleanUrl(param.s))
    THEN SearchError(400, "A URL fornecida nao e do Cifra Club.")
  ELSE NoSearchResponse

\* The documents page.content() gives /api/scrape.
ScrapeDocs == SiteAt(UrlA) \cup SiteAt(UrlB)

\* The a.gs-title anchors of the rendered search page.
WaitAnchors == SeqsUpTo(Anchors, MaxAnchors) \cup {SixAnchors}

\* The handler up to its first await that can be interleaved: validation,
\* then startBrowser() (part_000: browserInstance is returned if set; else
\* the api key is tested and puppeteer.connect called) or
\* puppeteer.launch() (part_002).  A url that is no string makes url.trim()
\* throw before the try block: the handler's promise rejects, nothing is
\* answered, and the rejection, which nothing in part_000 or part_002
\* handles, ends the process.
BrowseReceive(r) ==
  /\ ~browserState.exited
  /\ bproc[r].pc \in {"idle", "done"}
  /\ \E kind \in BrowseKinds :
       \E param \in BrowseParams(kind) :
         LET p == [IdleBrowse EXCEPT !.kind = kind] IN
         /\ bproc' = [bproc EXCEPT ![r] =
              IF TrimThrows(kind, param) THEN HandlerRejects(p)
              ELSE IF Rejected(kind, param) # NoSearchResponse
                THEN Respond(p, Rejected(kind, param))
              ELSE IF browserState.rev = "part_002" THEN [p EXCEPT !.pc = "connect"]
              ELSE IF browserState.instance # 0
                THEN [p EXCEPT !.conn = browserState.instance, !.pc = "newPage"]
              ELSE IF ~browserState.apiKey THEN Caught(p)
              ELSE [p EXCEPT !.pc = "connect"]]
         /\ browserState' =
              IF TrimThrows(kind, param)
                THEN [browserState EXCEPT !.exited = TRUE]
                ELSE browserState
  /\ UNCHANGED <<restVars, cache, cproc, fproc, favorites>>

\* puppeteer.connect() or launch() settles.  part_000 assigns the browser
\* to browserInstance and returns browserInstance; part_002 keeps it in the
\* local `browser`.  Then browser.newPage() is called.
BrowseConnect(r) ==
  /\ ~browserState.exited
  /\ bproc[r].pc = "connect"
  /\ \E ok \in BOOLEAN :
       IF ok
         THEN /\ browserState' =
                   [browserState EXCEPT
                      !.conns = @ \cup {r},
                      !.instance = IF browserState.rev = "part_000" THEN r ELSE @]
              /\ bproc' = [bproc EXCEPT ![r] = [@ EXCEPT !.conn = r, !.pc = "newPage"]]
         ELSE /\ bproc' = [bproc EXCEPT ![r] = Caught(@)]
              /\ UNCHANGED browserState
  /\ UNCHANGED <<restVars, cache, cproc, fproc, favorites>>

\* page = await browser.newPage() settles.  part_002 then calls
\* page.setRequestInterception(true), part_000 page.goto().
BrowseNewPage(r) ==
  /\ ~browserState.exited
  /\ bproc[r].pc = "newPage"
  /\ \E ok \in BOOLEAN :
       IF ok
         THEN /\ browserState' =
                   [browserState EXCEPT
                      !.pages = @ \cup {[id |-> r, conn |-> bproc[r].conn]}]
              /\ bproc' = [bproc EXCEPT ![r] =
                   [@ EXCEPT !.page = r,
                             !.pc = IF browserState.rev = "part_002"
                                      THEN "intercept" ELSE "goto"]]
         ELSE /\ bproc' = [bproc EXCEPT ![r] = Caught(@)]
              /\ UNCHANGED browserState
  /\ UNCHANGED <<restVars, cache, cproc, fproc, favorites>>

\* part_002: await page.setRequestInterception(true) settles; then
\* page.goto() is called.
BrowseIntercept(r) ==
  /\ ~browserState.exited
  /\ bproc[r].pc = "intercept"
  /\ \E ok \in BOOLEAN :
       bproc' = [bproc EXCEPT ![r] =
         IF ok THEN [@ EXCEPT !.pc = "goto"] ELSE Caught(@)]
  /\ UNCHANGED <<restVars, cache, cproc, browserState, fproc, favorites>>

\* await page.goto() settles.  /api/search goes on to waitForSelector,
\* /api/scrape to page.content().
BrowseGoto(r) ==
  /\ ~browserState.exited
  /\ bproc[r].pc = "goto"
  /\ \E ok \in BOOLEAN :
       bproc' = [bproc EXCEPT ![r] =
         IF ~ok THEN Caught(@)
         ELSE [@ EXCEPT !.pc = IF bproc[r].kind = "search" THEN "wait" ELSE "content"]]
  /\ UNCHANGED <<restVars, cache, cproc, browserState, fproc, favorites>>

\* await page.waitForSelector('a.gs-title', { timeout: 10000 }) settles:
\* the selector is there and page.content() is called, or the promise
\* rejects (the ten seconds are over) and the empty list is answered.
BrowseWait(r) ==
  /\ ~browserState.exited
  /\ bproc[r].pc = "wait"
  /\ \E selector \in {"found", "timeout"} :
       bproc' = [bproc EXCEPT ![r] =
         IF selector = "timeout"
           THEN Answer([@ EXCEPT !.selector = "timeout"], SelectorTimeoutResponse)
           ELSE [@ EXCEPT !.selector = "found", !.pc = "content"]]
  /\ UNCHANGED <<restVars, cache, cproc, browserState, fproc, favorites>>

\* await page.content() settles: the anchors of the search page are turned
\* into results, the document of /api/scrape is classified; a rejection
\* goes to the catch.
BrowseContent(r) ==
  /\ ~browserState.exited
  /\ bproc[r].pc = "content"
  /\ \E ok \in BOOLEAN, anchors \in WaitAnchors, doc \in ScrapeDocs :
       bproc' = [bproc EXCEPT ![r] =
         IF ~ok THEN Caught(@)
         ELSE IF @.kind = "search"
           THEN Answer(@, SearchResults(ScrapeAnchors(anchors, << >>)))
         ELSE Answer(@, ScrapeBrowserExtract(doc))]
  /\ UNCHANGED <<restVars, cache, cproc, browserState, fproc, favorites>>

\* await page.close() of the finally block settles: the page the local
\* `page` holds is closed and the block goes on.  A rejection leaves the
\* finally block: the page is not closed, part_002 does not reach
\* browser.close(), and the handler's promise rejects after its response;
\* nothing in part_000 or part_002 handles the rejection, which ends the
\* process.
BrowseClosePage(r) ==
  /\ ~browserState.exited
  /\ bproc[r].pc = "closePage"
  /\ \E ok \in BOOLEAN :
       IF ok
         THEN /\ browserState' =
                   [browserState EXCEPT !.pages = {pg \in @ : pg.id # bproc[r].page}]
              /\ bproc' = [bproc EXCEPT ![r] =
                   [@ EXCEPT !.pc = IF browserState.rev = "part_002" /\ bproc[r].conn # 0
                                      THEN "closeBrowser" ELSE "done"]]
         ELSE /\ bproc' = [bproc EXCEPT ![r] = HandlerRejects(@)]
              /\ browserState' = [browserState EXCEPT !.exited = TRUE]
  /\ UNCHANGED <<restVars, cache, cproc, fproc, favorites>>

\* part_002: await browser.close() of the finally block settles: the
\* browser is closed, with its pages.  A rejection leaves the browser open,
\* the handler's promise rejects after its response, and the unhandled
\* rejection ends the process.
BrowseCloseBrowser(r) ==
  /\ ~browserState.exited
  /\ bproc[r].pc = "closeBrowser"
  /\ \E ok \in BOOLEAN :
       IF ok
         THEN /\ browserState' =
                   [browserState EXCEPT !.conns = @ \ {bproc[r].conn},
                                        !.pages = {pg \in @ : pg.conn # bproc[r].conn}]
              /\ bproc' = [bproc EXCEPT ![r] = [@ EXCEPT !.pc = "done"]]
         ELSE /\ bproc' = [bproc EXCEPT ![r] = HandlerRejects(@)]
              /\ browserState' = [browserState EXCEPT !.exited = TRUE]
  /\ UNCHANGED <<restVars, cache, cproc, fproc, favorites>>

\* part_000, SIGINT: the handler calls closeBrowser(), which calls
\* browserInstance.close() if browserInstance is set; if it is not, nothing
\* is awaited of a collaborator and the process exits in the same turn.
\* Every SIGINT runs the handler, also while an earlier close() is pending.
Sigint ==
  /\ ~browserState.exited
  /\ browserState.rev = "part_000"
  /\ browserState' =
       IF browserState.instance = 0
         THEN [browserState EXCEPT !.sigint = TRUE, !.exited = TRUE]
         ELSE [browserState EXCEPT !.sigint = TRUE,
                                   !.closingConns = @ \cup {browserState.instance}]
  /\ UNCHANGED <<restVars, cache, cproc, bproc, fproc, favorites>>

\* await browserInstance.close() of closeBrowser() settles: the browser
\* is closed, with its pages, browserInstance is cleared and the process
\* exits.  A rejection leaves closeBrowser() and the SIGINT handler at the
\* await: the browser stays open, browserInstance stays set, and the
\* rejection of the async handler, which nothing handles, ends the process.
SigintExit ==
  /\ ~browserState.exited
  /\ \E c \in browserState.closingConns, ok \in BOOLEAN :
       browserState' =
         IF ok
           THEN [browserState EXCEPT
                   !.conns = @ \ {c},
                   !.pages = {pg \in @ : pg.conn # c},
                   !.instance = 0,
                   !.closingConns = @ \ {c},
                   !.exited = TRUE]
           ELSE [browserState EXCEPT !.exited = TRUE]
  /\ UNCHANGED <<restVars, cache, cproc, bproc, fproc, favorites>>

\* One of the request's awaited promises settles.
BrowseSettle(r) ==
  \/ BrowseConnect(r)
  \/ BrowseNewPage(r)
  \/ BrowseIntercept(r)
  \/ BrowseGoto(r)
  \/ BrowseWait(r)
  \/ BrowseContent(r)
  \/ BrowseClosePage(r)
  \/ BrowseCloseBrowser(r)

InitBrowser ==
  /\ page = EmptyPage
  /\ out = NoOut
  /\ cache = [u \in CacheKeys |-> NoRow]
  /\ now = 0
  /\ sreq = NoSearch
  /\ sres = NoSearchOut
  /\ cproc = [r \in Requests |-> IdleCifra]
  /\ bproc = [r \in Requests |-> IdleBrowse]
  /\ browserState \in {NoBrowser(rev, apiKey) : rev \in Revisions, apiKey \in BOOLEAN}
  /\ fproc = [r \in Requests |-> IdleFav]
  /\ favorites = << >>

NextBrowser ==
  \/ \E r \in Requests : BrowseReceive(r)
  \/ \E r \in Requests : BrowseSettle(r)
  \/ Sigint
  \/ SigintExit

SpecBrowser == InitBrowser /\ [][NextBrowser]_vars

\* waitForSelector is called with { timeout: 10000 }: while the process
\* runs, its promise settles within the ten seconds.  No other awaited call
\* of the handlers is bounded by the code.
SpecBrowserFair ==
  SpecBrowser /\ \A r \in Requests : WF_vars(BrowseWait(r))

\* ------------------------------------------------------------------------
\* Pages, the selector timeout and the shared browser
\* ------------------------------------------------------------------------
\* The pages request r opened that are still open.
OpenPagesOf(r) == {pg \in browserState.pages : pg.id = r}

\* A request whose handler has ended has no page open (the pages are those
\* the program opened and did not close, also once the process has ended).
PagesClosedWhenDone ==
  \A r \in Requests :
    bproc[r].pc \in {"idle", "done", "rejected"} => OpenPagesOf(r) = {}

\* A page goes away only in the finally block of the request that opened
\* it, or with the process.
PageClosedByOwner ==
  \A pg \in browserState.pages \ browserState'.pages :
    \/ /\ bproc[pg.id].pc \in {"closePage", "closeBrowser"}
       /\ bproc'[pg.id].pc # bproc[pg.id].pc
    \/ browserState'.exited

\* C14: every page a request opens is closed on every exit path of the
\* request (results sent, selector timeout, error), so a completed request
\* has no page open, and no request closes the page of another.
C14_PagesClosedOnEveryExit ==
  /\ []PagesClosedWhenDone
  /\ [][PageClosedByOwner]_vars

\* A search whose wait for the selector timed out has answered once, with
\* success and the empty list.
SelectorTimeoutAnswered ==
  \A r \in Requests :
    bproc[r].selector = "timeout" =>
      /\ bproc[r].sent = 1
      /\ bproc[r].res.status = 200
      /\ bproc[r].res.results = << >>

\* C15: a search whose result selector does not appear within the timeout
\* is answered once, with success and the empty list; and unless the
\* process is told to shut down (SIGINT), a request that waits for the
\* selector does not wait forever: the wait ends, with the selector found
\* or with that answer.
C15_SelectorTimeoutGivesEmptyList ==
  /\ []SelectorTimeoutAnswered
  /\ \A r \in Requests :
       (bproc[r].pc = "wait") ~> (bproc[r].pc # "wait" \/ browserState.sigint)

\* C18: in the revision that shares the browser, at most one browser
\* connection exists at a time and every request in flight uses the one
\* browserInstance holds.
C18_SingleBrowserInstance ==
  (browserState.rev = "part_000" /\ ~browserState.exited) =>
    /\ Cardinality(browserState.conns) <= 1
    /\ \A r \in Requests :
         (bproc[r].pc \notin {"idle", "done", "rejected"} /\ bproc[r].conn # 0) =>
           bproc[r].conn = browserState.instance

\* ------------------------------------------------------------------------
\* Favorites, query by query (server.js)
\* ------------------------------------------------------------------------
\* req.user.id of the authenticated requests.
FavUsers == {1, 2}

\* req.body.url.
FavUrls == {UrlA, UrlB}

\* The (user_id, url) of a favorites row: what the unique key is on.
FavRow(p) == [user |-> p.user, url |-> p.url]

\* SELECT * FROM favorites WHERE user_id = ? AND url = ?
SelectFavorites(rows, row) == SelectSeq(rows, LAMBDA x : x = row)

\* INSERT INTO favorites (user_id, song, artist, url) ...  The statement
\* fails on an artist that is NULL (artist VARCHAR(255) NOT NULL; an
\* undefined parameter is sent as NULL) and, by UNIQUE KEY unique_fav
\* (user_id, url), on a row that is there.
InsertFavorite(rows, row, artist) ==
  IF ~artist \/ SelectFavorites(rows, row) # << >>
    THEN [ok |-> FALSE, rows |-> rows]
    ELSE [ok |-> TRUE, rows |-> Append(rows, row)]

\* DELETE FROM favorites WHERE user_id = ? AND url = ?
DeleteFavorite(rows, row) == SelectSeq(rows, LAMBDA x : x # row)

\* res.status(code).json(...), then the handler ends.
FavRespond(p, code) == [p EXCEPT !.status = code, !.pc = "done"]

\* authenticateToken: 401 without a token, 403 with one that does not
\* verify.
AuthStatus(token) == IF token = "none" THEN 401 ELSE 403

\* A request is answered by authenticateToken: the handler does not run.
FavDenied(r) ==
  /\ fproc[r].pc \in {"idle", "done"}
  /\ \E op \in {"add", "remove"}, token \in {"none", "invalid"} :
       fproc' = [fproc EXCEPT ![r] =
         FavRespond([IdleFav EXCEPT !.op = op], AuthStatus(token))]
  /\ UNCHANGED <<restVars, cache, cproc, bproc, browserState, favorites>>

\* POST /api/favorites: the body has a name (song, or title in its place)
\* and a url.  DELETE /api/favorites: the body has a url.
BodyComplete(op, song, title, url) ==
  IF op = "add" THEN (song \/ title) /\ url # << >> ELSE url # << >>

\* Which of song, title and artist req.body holds: none of them, the song
\* alone, the song with its artist, the title alone (a search result).
\* DELETE /api/favorites reads the url only.
FavBodies(op) ==
  IF op = "remove" THEN {[song |-> FALSE, title |-> FALSE, artist |-> FALSE]}
  ELSE {[song |-> FALSE, title |-> FALSE, artist |-> FALSE],
        [song |-> TRUE, title |-> FALSE, artist |-> FALSE],
        [song |-> TRUE, title |-> FALSE, artist |-> TRUE],
        [song |-> FALSE, title |-> TRUE, artist |-> FALSE]}

\* POST or DELETE /api/favorites of an authenticated user up to its
\* query: the body is validated (400) and the SELECT or the DELETE sent.
\* if (!song && title) { song = title; artist = artist || 'Desconhecido'; }
\* so the artist has a value if the body gave one or the default was taken.
FavReceive(r) ==
  /\ fproc[r].pc \in {"idle", "done"}
  /\ \E op \in {"add", "remove"}, user \in FavUsers, url \in FavUrls \cup {<< >>} :
      \E body \in FavBodies(op) :
       LET p == [IdleFav EXCEPT !.op = op]
           song == body.song
           title == body.title
           artist == body.artist
       IN
       fproc' = [fproc EXCEPT ![r] =
         IF ~BodyComplete(op, song, title, url)
           THEN FavRespond([p EXCEPT !.user = user], 400)
         ELSE [p EXCEPT !.user = user, !.url = url,
                        !.artist = op = "add" /\ (artist \/ (~song /\ title)),
                        !.pc = IF op = "add" THEN "select" ELSE "delete"]]
  /\ UNCHANGED <<restVars, cache, cproc, bproc, browserState, favorites>>

\* The catch of a query that the database rejected for a reason of its
\* own (connection lost, ...): 500.
FavFault(p) == FavRespond([p EXCEPT !.fault = TRUE], 500)

\* The SELECT of the add settles: 409 if a row came back, else the INSERT
\* is sent; a rejection goes to the catch.
FavSelect(r) ==
  /\ fproc[r].pc = "select"
  /\ \E ok \in BOOLEAN :
       fproc' = [fproc EXCEPT ![r] =
         IF ~ok THEN FavFault(@)
         ELSE IF Len(SelectFavorites(favorites, FavRow(@))) > 0
           THEN FavRespond(@, 409)
         ELSE [@ EXCEPT !.pc = "insert"]]
  /\ UNCHANGED <<restVars, cache, cproc, bproc, browserState, favorites>>

\* The INSERT settles: 201, or the catch (500) if the statement failed, on
\* the NULL artist, on the unique key or otherwise.
FavInsert(r) ==
  /\ fproc[r].pc = "insert"
  /\ \E ok \in BOOLEAN :
       LET done == InsertFavorite(favorites, FavRow(fproc[r]), fproc[r].artist) IN
       IF ~ok
         THEN /\ favorites' = favorites
              /\ fproc' = [fproc EXCEPT ![r] = FavFault(@)]
         ELSE /\ favorites' = done.rows
              /\ fproc' = [fproc EXCEPT ![r] =
                   FavRespond(@, IF done.ok THEN 201 ELSE 500)]
  /\ UNCHANGED <<restVars, cache, cproc, bproc, browserState>>

\* The DELETE settles: 200, or the catch (500).
FavDelete(r) ==
  /\ fproc[r].pc = "delete"
  /\ \E ok \in BOOLEAN :
       IF ~ok
         THEN /\ favorites' = favorites
              /\ fproc' = [fproc EXCEPT ![r] = FavFault(@)]
         ELSE /\ favorites' = DeleteFavorite(favorites, FavRow(fproc[r]))
              /\ fproc' = [fproc EXCEPT ![r] = FavRespond(@, 200)]
  /\ UNCHANGED <<restVars, cache, cproc, bproc, browserState>>

InitFav ==
  /\ page = EmptyPage
  /\ out = NoOut
  /\ cache = [u \in CacheKeys |-> NoRow]
  /\ now = 0
  /\ sreq = NoSearch
  /\ sres = NoSearchOut
  /\ NothingInFlight

NextFav ==
  \E r \in Requests :
    \/ FavDenied(r)
    \/ FavReceive(r)
    \/ FavSelect(r)
    \/ FavInsert(r)
    \/ FavDelete(r)

SpecFav == InitFav /\ [][NextFav]_vars

\* The table never holds two rows with the same (user, url).
FavoritesUnique ==
  \A i, j \in 1..Len(favorites) : favorites[i] = favorites[j] => i = j

\* C19: favorites stay unique per user, and an add that passed the
\* validation and gives the INSERT an artist, the database answering its
\* queries, is answered with 201 (added) or 409 (duplicate), never with an
\* internal error, also when a concurrent add of the same (user, url) wins.
C19_FavoritesUniqueDuplicate409 ==
  /\ FavoritesUnique
  /\ \A r \in Requests :
       (/\ fproc[r].pc = "done" /\ fproc[r].op = "add"
        /\ fproc[r].url # << >> /\ fproc[r].artist /\ ~fproc[r].fault) =>
         fproc[r].status \in {201, 409}

====
